---- MODULE Spec2Model ----
(***************************************************************************)
(* Model of the news pipeline of src/dashboard.py:                         *)
(*   do_request / fetch_articles_for_items (paging, retry, deduplication), *)
(*   filter_relevant / fuzzy_match, batch_summarize and the API-usage      *)
(*   estimate of the sidebar.                                              *)
(***************************************************************************)
EXTENDS Integers, Sequences, FiniteSets, TLC

VARIABLES
    \* ---- fetch_articles_for_items / do_request ----
    pc,                 \* position in fetch_articles_for_items
    keyword_items,      \* number of keyword items handed to the fetch
    limited_items,      \* len(keyword_items[:max_keywords_per_run])
    warned,             \* the "Limiting to first ..." warning was emitted
    idx,                \* 1-based index of the item being fetched
    page,               \* articlesPage of the current search call
    retry,              \* do_request's retry parameter
    status,             \* r.status_code of the last HTTP response (0: none)
    data,               \* value returned by do_request
    outcome,            \* which branch do_request ended in
    waits,              \* time.sleep(wait) calls of the current do_request
    delays,             \* number of time.sleep(request_delay) calls
    all_results,
    total_calls,
    successful_items,
    failed_items,
    item_had_results,
    unique_articles,
    item_log,           \* history: the search calls made for the current item
    item_requests,      \* history: HTTP requests posted for the current item
    item_first_403,     \* history: the current item's first response was a 403
    item_base,          \* history: len(all_results) when the current item began
    kasigau_debug,      \* debug_mode is on and a limited item's keyword is "kasigau"
    network_calls,      \* history: requests.post calls made in this run
    diagnostic_calls,   \* history: do_request calls made by test_kasigau_diagnostic
    \* ---- batch_summarize ----
    s_pc,               \* position in batch_summarize
    articles,           \* number of articles handed to batch_summarize
    batch_start,        \* the loop variable i: start offset of the next batch
    out,                \* the summaries emitted so far
    batch_log,          \* history: what the model did for each batch
    \* ---- filter_relevant ----
    f_pc,               \* position in filter_relevant
    f_articles,         \* the articles handed to filter_relevant
    f_items,            \* the keyword items handed to filter_relevant
    threshold,          \* the relevance sensitivity handed to filter_relevant
    relevant,           \* the list filter_relevant returns
    \* ---- "Estimate API Usage" button ----
    e_pc,               \* position in the button's handler
    total_items,        \* sum(len(items) for items in filters.values())
    max_keywords_per_run,   \* the "Max keywords per run" setting
    max_pages_per_item,     \* the "Pages per keyword item" setting
    estimated_items,
    estimated_calls

fetchVars == <<pc, keyword_items, limited_items, warned, idx, page, retry, status,
               data, outcome, waits, delays, all_results, total_calls,
               successful_items, failed_items, item_had_results, unique_articles,
               item_log, item_requests, item_first_403, item_base,
               kasigau_debug, network_calls, diagnostic_calls>>

summVars == <<s_pc, articles, batch_start, out, batch_log>>

filterVars == <<f_pc, f_articles, f_items, threshold, relevant>>

estimateVars == <<e_pc, total_items, max_keywords_per_run, max_pages_per_item,
                  estimated_items, estimated_calls>>

vars == <<fetchVars, summVars, filterVars, estimateVars>>

----------------------------------------------------------------------------
\* Bounds of the model

\* largest number of keyword items handed to one fetch
MaxItems == 3
\* the "Max keywords per run" setting used in the model
MaxKeywordsPerRun == 2
\* the "Articles per API call" setting used in the model
MaxArticlesPerCall == 2
\* longest fetched sequence handed to the deduplication alone
MaxFetched == 4

\* largest number of articles handed to batch_summarize
MaxSummarized == 7
\* largest number of lines in one model response
MaxLines == 3

\* largest number of articles handed to filter_relevant
MaxFiltered == 2
\* largest number of keyword items handed to filter_relevant
MaxFilterItems == 2

\* largest small number of keyword items the estimate is tried on
MaxEstimateItems == 6

\* Program constants
MaxPagesPerItem == 2
MaxRetries == 3
RequestDelayOn == TRUE
BatchSize == 5
ExcerptLen == 50

----------------------------------------------------------------------------
\* Generic helpers

Min(a, b) == IF a < b THEN a ELSE b

RECURSIVE Pow2(_)
Pow2(n) == IF n = 0 THEN 1 ELSE 2 * Pow2(n - 1)

SeqsUpTo(S, n) == UNION {[1..k -> S] : k \in 0..n}

RECURSIVE Flatten(_)
Flatten(ss) == IF ss = <<>> THEN <<>> ELSE Head(ss) \o Flatten(Tail(ss))

----------------------------------------------------------------------------
\* Articles

Missing == "MISSING"
Urls == {Missing, "", "u1", "u2"}
Titles == {"t1", "t2"}
Articles == [url : Urls, title : Titles]

\* art.get("url") is truthy
HasUrl(art) == art.url # Missing /\ art.url # ""

\* The articles the simulated search API holds, in the order it serves them.
Pool == << [url |-> "u1", title |-> "t1"], [url |-> "", title |-> "t1"],
           [url |-> "u2", title |-> "t1"], [url |-> "u1", title |-> "t2"],
           [url |-> Missing, title |-> "t2"] >>

\* data["articles"]["results"] of a successful response with n results
PageResults(i, p, n) == [k \in 1..n |-> Pool[((2 * i + p + k) % Len(Pool)) + 1]]

----------------------------------------------------------------------------
\* Deduplication (the list comprehension over all_results)

RECURSIVE DedupeFrom(_, _, _)
DedupeFrom(rest, seen_urls, acc) ==
    IF rest = <<>> THEN acc
    ELSE LET art == Head(rest) IN
         IF HasUrl(art) /\ art.url \notin seen_urls
         THEN DedupeFrom(Tail(rest), seen_urls \cup {art.url}, Append(acc, art))
         ELSE DedupeFrom(Tail(rest), seen_urls, acc)

RECURSIVE NoDedupeFrom(_)
NoDedupeFrom(rest) ==
    IF rest = <<>> THEN <<>>
    ELSE IF HasUrl(Head(rest)) THEN <<Head(rest)>> \o NoDedupeFrom(Tail(rest))
         ELSE NoDedupeFrom(Tail(rest))

\* Dedupe with the seen_urls test dropped
DedupeKeepAll(results) == NoDedupeFrom(results)

Dedupe(results) == DedupeFrom(results, {}, <<>>)

----------------------------------------------------------------------------
\* do_request

\* What one requests.post can produce: an HTTP status, or 0 when the call
\* raised a RequestException (timeout, DNS, connection) and there is no response.
Responses == {0, 200, 403, 429, 500, 503}

NoData == [kind |-> "none", results |-> <<>>]
EmptyJson == [kind |-> "empty", results |-> <<>>]
Json(results) == [kind |-> "json", results |-> results]

\* `if not data` / `if not results`
Falsy(d) == d.kind # "json"

\* ShouldRetry allowing one retry more
ShouldRetryOneMore(st, r) == st \in {429, 503} /\ r < MaxRetries + 1

\* ShouldRetry treating 403 as a rate limit
ShouldRetryAlso403(st, r) == st \in {403, 429, 503} /\ r < MaxRetries

\* r.status_code in (429, 503) and retry < 3
ShouldRetry(st, r) == st \in {429, 503} /\ r < MaxRetries

\* wait = 2 ** (retry + 1)
BackoffWait(r) == Pow2(r + 1)

\* The branch do_request ends in for a response that is not retried
OutcomeOf(st) ==
    IF st = 0 THEN "request_failed"
    ELSE IF st = 403 THEN "quota_exceeded"
    ELSE IF st >= 400 THEN "http_error"
    ELSE "ok"

\* The values r.json() can return for item i, page p: an empty JSON
\* object, or an object holding 0..max_articles_per_call results.
Bodies(i, p) == {EmptyJson} \cup {Json(PageResults(i, p, n)) : n \in 0..MaxArticlesPerCall}

\* What `return r.json()` does with the body of a 200 response: it returns the
\* parsed value, or the body is not JSON and it raises: a
\* requests.JSONDecodeError, which `except requests.RequestException` catches
\* (requests >= 2.27), or a plain ValueError, which no clause of do_request
\* catches and which ends fetch_articles_for_items (older requests).
JsonResults == {"parsed", "request_exception", "value_error"}

\* The branch do_request ends in after r.json()
OutcomeOfJson(js) ==
    IF js = "parsed" THEN "ok"
    ELSE IF js = "request_exception" THEN "request_failed"
    ELSE "value_error"

\* One HTTP request of do_request(payload, retry), called from the paging
\* loop ("request") or from test_kasigau_diagnostic ("diag_request")
Request ==
    /\ UNCHANGED <<summVars, filterVars, estimateVars>>
    /\ pc \in {"request", "diag_request"}
    /\ network_calls' = network_calls + 1
    /\ UNCHANGED <<kasigau_debug, diagnostic_calls>>
    /\ \E st \in Responses :
         /\ status' = st
         /\ item_requests' = IF pc = "request" THEN item_requests + 1 ELSE item_requests
         /\ item_first_403' = IF pc = "request" /\ item_requests = 0
                              THEN st = 403 ELSE item_first_403
         /\ IF ShouldRetry(st, retry)
            THEN /\ waits' = Append(waits, BackoffWait(retry))
                 /\ retry' = retry + 1
                 /\ pc' = pc
                 /\ UNCHANGED <<data, outcome>>
            ELSE /\ IF OutcomeOf(st) = "ok"
                    THEN \E js \in JsonResults :
                           /\ outcome' = OutcomeOfJson(js)
                           /\ IF js = "parsed"
                              THEN \E b \in Bodies(idx, page) : data' = b
                              ELSE data' = NoData
                           /\ pc' = IF js = "value_error" THEN "aborted"
                                    ELSE IF pc = "request" THEN "handle" ELSE "item"
                    ELSE /\ outcome' = OutcomeOf(st)
                         /\ data' = NoData
                         /\ pc' = IF pc = "request" THEN "handle" ELSE "item"
                 /\ UNCHANGED <<waits, retry>>
    /\ UNCHANGED <<keyword_items, limited_items, warned, idx, page, delays,
                   all_results, total_calls, successful_items, failed_items,
                   item_had_results, unique_articles, item_log, item_base>>

----------------------------------------------------------------------------
\* fetch_articles_for_items

\* LimitedItems with the truncation dropped
LimitedItemsNoTruncation(n) == n

\* len(keyword_items[:max_keywords_per_run])
LimitedItems(n) == Min(n, MaxKeywordsPerRun)

\* `if not keyword_items: return []`, else the truncation and the counters
FetchStart ==
    /\ UNCHANGED <<kasigau_debug, network_calls, diagnostic_calls>>
    /\ UNCHANGED <<summVars, filterVars, estimateVars>>
    /\ pc = "start"
    /\ IF keyword_items = 0
       THEN /\ unique_articles' = <<>>
            /\ pc' = "done"
            /\ UNCHANGED <<limited_items, warned, idx>>
       ELSE /\ limited_items' = LimitedItems(keyword_items)
            /\ warned' = (keyword_items > MaxKeywordsPerRun)
            /\ idx' = 1
            /\ pc' = IF kasigau_debug THEN "diagnostic" ELSE "item"
            /\ UNCHANGED unique_articles
    /\ all_results' = <<>>
    /\ total_calls' = 0
    /\ successful_items' = 0
    /\ failed_items' = 0
    /\ UNCHANGED <<keyword_items, page, retry, status, data, outcome, waits, delays,
                   item_had_results, item_log, item_requests, item_first_403,
                   item_base>>

\* `if debug_mode and any(... == "kasigau" ...): test_kasigau_diagnostic()`:
\* the diagnostic enters its one do_request; its result is only displayed
BeginDiagnostic ==
    /\ UNCHANGED <<summVars, filterVars, estimateVars>>
    /\ pc = "diagnostic"
    /\ diagnostic_calls' = diagnostic_calls + 1
    /\ retry' = 0
    /\ waits' = <<>>
    /\ pc' = "diag_request"
    /\ UNCHANGED <<keyword_items, limited_items, warned, idx, page, status, data,
                   outcome, delays, all_results, total_calls, successful_items,
                   failed_items, item_had_results, unique_articles, item_log,
                   item_requests, item_first_403, item_base, kasigau_debug,
                   network_calls>>

\* Top of the body of `for idx, item in enumerate(limited_items)`
BeginItem ==
    /\ UNCHANGED <<kasigau_debug, network_calls, diagnostic_calls>>
    /\ UNCHANGED <<summVars, filterVars, estimateVars>>
    /\ pc = "item"
    /\ item_had_results' = FALSE
    /\ page' = 1
    /\ item_log' = <<>>
    /\ item_requests' = 0
    /\ item_first_403' = FALSE
    /\ item_base' = Len(all_results)
    /\ pc' = "page"
    /\ UNCHANGED <<keyword_items, limited_items, warned, idx, retry, status, data,
                   outcome, waits, delays, all_results, total_calls,
                   successful_items, failed_items, unique_articles>>

\* `total_calls += 1; data = do_request(payload)`: the call is entered
BeginPage ==
    /\ UNCHANGED <<kasigau_debug, network_calls, diagnostic_calls>>
    /\ UNCHANGED <<summVars, filterVars, estimateVars>>
    /\ pc = "page"
    /\ total_calls' = total_calls + 1
    /\ retry' = 0
    /\ waits' = <<>>
    /\ pc' = "request"
    /\ UNCHANGED <<keyword_items, limited_items, warned, idx, page, status, data,
                   outcome, delays, all_results, successful_items, failed_items,
                   item_had_results, unique_articles, item_log, item_requests,
                   item_first_403, item_base>>

\* StopPaging without the short-page test
StopPagingNoShortPage(d) == Falsy(d) \/ d.results = <<>>

\* The paging loop stops after this page
StopPaging(d) ==
    \/ Falsy(d)
    \/ d.results = <<>>
    \/ Len(d.results) < MaxArticlesPerCall

\* The page's results are appended to all_results
Appends(d) == ~Falsy(d) /\ d.results # <<>>

\* HasNextPage with the range one too long
HasNextPageOneMore(p) == p < MaxPagesPerItem + 1

\* `for page in range(1, max_pages_per_item + 1)` has a next value
HasNextPage(p) == p < MaxPagesPerItem

\* The rest of the loop body once do_request has returned
HandlePage ==
    /\ UNCHANGED <<kasigau_debug, network_calls, diagnostic_calls>>
    /\ UNCHANGED <<summVars, filterVars, estimateVars>>
    /\ pc = "handle"
    /\ delays' = IF RequestDelayOn THEN delays + 1 ELSE delays
    /\ item_log' = Append(item_log, [outcome |-> outcome, data |-> data,
                                     requests |-> retry + 1])
    /\ IF Appends(data)
       THEN /\ item_had_results' = TRUE
            /\ all_results' = all_results \o data.results
       ELSE UNCHANGED <<item_had_results, all_results>>
    /\ IF ~StopPaging(data) /\ HasNextPage(page)
       THEN /\ page' = page + 1
            /\ pc' = "page"
       ELSE /\ pc' = "item_end"
            /\ UNCHANGED page
    /\ UNCHANGED <<keyword_items, limited_items, warned, idx, retry, status, data,
                   outcome, waits, total_calls, successful_items, failed_items,
                   unique_articles, item_requests, item_first_403, item_base>>

\* `if item_had_results: successful_items += 1 else: failed_items += 1`,
\* then the next item or the end of the loop
EndItem ==
    /\ UNCHANGED <<kasigau_debug, network_calls, diagnostic_calls>>
    /\ UNCHANGED <<summVars, filterVars, estimateVars>>
    /\ pc = "item_end"
    /\ IF item_had_results
       THEN /\ successful_items' = successful_items + 1
            /\ UNCHANGED failed_items
       ELSE /\ failed_items' = failed_items + 1
            /\ UNCHANGED successful_items
    /\ IF idx < limited_items
       THEN /\ idx' = idx + 1
            /\ pc' = "item"
       ELSE /\ pc' = "dedupe"
            /\ UNCHANGED idx
    /\ UNCHANGED <<keyword_items, limited_items, warned, page, retry, status, data,
                   outcome, waits, delays, all_results, total_calls,
                   item_had_results, unique_articles, item_log, item_requests,
                   item_first_403, item_base>>

\* `unique_articles = [...]; return unique_articles`
Deduplicate ==
    /\ UNCHANGED <<kasigau_debug, network_calls, diagnostic_calls>>
    /\ UNCHANGED <<summVars, filterVars, estimateVars>>
    /\ pc = "dedupe"
    /\ unique_articles' = Dedupe(all_results)
    /\ pc' = "done"
    /\ UNCHANGED <<keyword_items, limited_items, warned, idx, page, retry, status,
                   data, outcome, waits, delays, all_results, total_calls,
                   successful_items, failed_items, item_had_results, item_log,
                   item_requests, item_first_403, item_base>>

FetchIdle ==
    /\ limited_items = 0 /\ warned = FALSE /\ idx = 0 /\ page = 0 /\ retry = 0
    /\ status = 0 /\ data = NoData /\ outcome = "none" /\ waits = <<>>
    /\ delays = 0 /\ total_calls = 0 /\ successful_items = 0 /\ failed_items = 0
    /\ item_had_results = FALSE /\ unique_articles = <<>> /\ item_log = <<>>
    /\ item_requests = 0 /\ item_first_403 = FALSE /\ item_base = 0
    /\ network_calls = 0 /\ diagnostic_calls = 0

SummIdle ==
    /\ s_pc = "idle" /\ articles = 0 /\ batch_start = 0 /\ out = <<>> /\ batch_log = <<>>

FilterIdle ==
    /\ f_pc = "idle" /\ f_articles = <<>> /\ f_items = <<>> /\ threshold = 0
    /\ relevant = <<>>

EstimateIdle ==
    /\ e_pc = "idle" /\ total_items = 0 /\ max_keywords_per_run = 0
    /\ max_pages_per_item = 0 /\ estimated_items = 0 /\ estimated_calls = 0

\* A fetch is about to be called with 0..MaxItems keyword items, with or
\* without the debug diagnostic applying
Init ==
    /\ pc = "start"
    /\ keyword_items \in 0..MaxItems
    /\ kasigau_debug \in (IF keyword_items = 0 THEN {FALSE} ELSE BOOLEAN)
    /\ all_results = <<>>
    /\ FetchIdle
    /\ SummIdle
    /\ FilterIdle
    /\ EstimateIdle

Next ==
    \/ FetchStart
    \/ BeginDiagnostic
    \/ BeginItem
    \/ BeginPage
    \/ Request
    \/ HandlePage
    \/ EndItem
    \/ Deduplicate

Spec == Init /\ [][Next]_vars

\* The deduplication alone, over every fetched sequence of up to MaxFetched articles
InitDedupe ==
    /\ pc = "dedupe"
    /\ keyword_items = 0
    /\ kasigau_debug = FALSE
    /\ all_results \in SeqsUpTo(Articles, MaxFetched)
    /\ FetchIdle
    /\ SummIdle
    /\ FilterIdle
    /\ EstimateIdle

NextDedupe == Deduplicate

SpecDedupe == InitDedupe /\ [][NextDedupe]_vars

----------------------------------------------------------------------------
\* batch_summarize
\*
\* Text is a sequence of words; a line is the sequence of its words, the colon
\* being a word of its own, and the empty sequence is a blank line.  A model
\* response is the sequence of its lines.

Lines == { <<>>,
           <<"SUMMARY", "1", ":", "a">>,
           <<"summary", "2">>,
           <<"b">> }

ResponseTexts == SeqsUpTo(Lines, MaxLines)

\* str(e) of the exception the model call raised, as a sequence of characters
ShortError == <<"e", "r", "r">>
LongError == [k \in 1..(ExcerptLen + 2) |-> "x"]

\* What client.chat.completions.create can do for one batch
Behaviours ==
    [kind : {"text"}, txt : ResponseTexts, err : {<<>>}]
        \cup [kind : {"raise"}, txt : {<<>>}, err : {ShortError, LongError}]

Upper(w) == IF w = "summary" THEN "SUMMARY" ELSE w

\* ln.upper().startswith("SUMMARY")
IsMarker(ln) == ln # <<>> /\ Upper(Head(ln)) = "SUMMARY"

\* ln.split(":", 1)[1].strip() if ":" in ln else ""
AfterColon(ln) ==
    IF \E k \in DOMAIN ln : ln[k] = ":"
    THEN LET c == CHOOSE k \in DOMAIN ln :
                      ln[k] = ":" /\ \A j \in 1..(k - 1) : ln[j] # ":"
         IN  SubSeq(ln, c + 1, Len(ln))
    ELSE <<>>

\* The scan `for ln in lines`; cur_set is `cur is not None`.  The result is
\* <<summaries, cur_set, cur>>.
RECURSIVE ScanLines(_, _, _, _)
ScanLines(lines, summaries, cur_set, cur) ==
    IF lines = <<>> THEN <<summaries, cur_set, cur>>
    ELSE LET ln == Head(lines) IN
         IF IsMarker(ln)
         THEN ScanLines(Tail(lines),
                        IF cur_set THEN Append(summaries, cur) ELSE summaries,
                        TRUE, AfterColon(ln))
         ELSE IF cur_set
         THEN ScanLines(Tail(lines), summaries, TRUE, cur \o ln)
         ELSE ScanLines(Tail(lines), summaries, FALSE, cur)

\* [s.strip() for s in txt.split("\n\n") if s.strip()]: the runs of non-blank
\* lines, each joined by newlines.  acc is the run being read.
RECURSIVE Paragraphs(_, _)
Paragraphs(txt, acc) ==
    IF txt = <<>> THEN (IF acc = <<>> THEN <<>> ELSE <<acc>>)
    ELSE IF Head(txt) = <<>>
    THEN (IF acc = <<>> THEN <<>> ELSE <<acc>>) \o Paragraphs(Tail(txt), <<>>)
    ELSE Paragraphs(Tail(txt),
                    IF acc = <<>> THEN Head(txt) ELSE acc \o <<"\n">> \o Head(txt))

\* The summaries parsed out of a response text
ParseSummaries(txt) ==
    LET lines == SelectSeq(txt, LAMBDA ln : ln # <<>>)
        scan == ScanLines(lines, <<>>, FALSE, <<>>)
        summaries == IF scan[2] /\ scan[3] # <<>>
                     THEN Append(scan[1], scan[3]) ELSE scan[1]
    IN  IF summaries = <<>> THEN Paragraphs(txt, <<>>) ELSE summaries

NotAvailable == <<"Summary not available.">>

\* `while len(summaries) < len(group): summaries.append(...)`
Pad(summaries, n) ==
    summaries \o [k \in 1..(n - Len(summaries)) |-> NotAvailable]

\* FitToGroup without the truncation of extra summaries
FitToGroupNoTruncation(summaries, n) == Pad(summaries, n)

\* The padding, then `summaries[:len(group)]`
FitToGroup(summaries, n) == SubSeq(Pad(summaries, n), 1, n)

\* f"Summary unavailable: {str(e)[:50]}"
Unavailable(err) == <<"Summary unavailable:">> \o SubSeq(err, 1, Min(Len(err), ExcerptLen))

\* What one batch of n articles adds to out
BatchOutput(b, n) ==
    IF b.kind = "raise"
    THEN [k \in 1..n |-> Unavailable(b.err)]
    ELSE FitToGroup(ParseSummaries(b.txt), n)

\* AfterBatch with a failed batch discarding the summaries emitted before it
AfterBatchFailureResets(o, b, n) ==
    IF b.kind = "raise" THEN BatchOutput(b, n) ELSE o \o BatchOutput(b, n)

\* out.extend(...) of either branch of the try
AfterBatch(o, b, n) == o \o BatchOutput(b, n)

\* `if not articles: return []`, else `out = []` and the loop is entered
SummStart ==
    /\ s_pc = "start"
    /\ out' = <<>>
    /\ batch_start' = 0
    /\ s_pc' = IF articles = 0 THEN "done" ELSE "loop"
    /\ UNCHANGED <<articles, batch_log>>
    /\ UNCHANGED <<fetchVars, filterVars, estimateVars>>

\* One iteration of `for i in range(0, len(articles), batch_size)`
SummBatch ==
    /\ s_pc = "loop"
    /\ batch_start < articles
    /\ \E b \in Behaviours :
         LET group == Min(BatchSize, articles - batch_start) IN
         /\ out' = AfterBatch(out, b, group)
         /\ batch_log' = Append(batch_log, b)
    /\ batch_start' = batch_start + BatchSize
    /\ UNCHANGED <<s_pc, articles>>
    /\ UNCHANGED <<fetchVars, filterVars, estimateVars>>

\* The loop is exhausted: `return out`
SummReturn ==
    /\ s_pc = "loop"
    /\ batch_start >= articles
    /\ s_pc' = "done"
    /\ UNCHANGED <<articles, batch_start, out, batch_log>>
    /\ UNCHANGED <<fetchVars, filterVars, estimateVars>>

\* batch_summarize is about to be called with 0..MaxSummarized articles
InitSumm ==
    /\ pc = "idle"
    /\ keyword_items = 0
    /\ kasigau_debug = FALSE
    /\ all_results = <<>>
    /\ FetchIdle
    /\ s_pc = "start"
    /\ articles \in 0..MaxSummarized
    /\ batch_start = 0 /\ out = <<>> /\ batch_log = <<>>
    /\ FilterIdle
    /\ EstimateIdle

NextSumm == SummStart \/ SummBatch \/ SummReturn

SpecSumm == InitSumm /\ [][NextSumm]_vars

----------------------------------------------------------------------------
\* fuzzy_match
\*
\* A string is the sequence of its characters.  The rapidfuzz scores are
\* compared with the threshold as exact fractions: score >= t is written
\* without the division.

\* The characters of the model's strings, in code-point order
Alphabet == <<" ", "K", "W", "k", "w", "x">>

Ord(c) == CHOOSE n \in DOMAIN Alphabet : Alphabet[n] = c

\* str.lower()
Lower(str) ==
    [n \in DOMAIN str |-> IF str[n] = "K" THEN "k" ELSE IF str[n] = "W" THEN "w" ELSE str[n]]

\* key in text
Contains(text, key) ==
    \E n \in 0..(Len(text) - Len(key)) : SubSeq(text, n + 1, n + Len(key)) = key

Max(a, b) == IF a > b THEN a ELSE b

\* Length of the longest common subsequence
RECURSIVE LCS(_, _)
LCS(a, b) ==
    IF a = <<>> \/ b = <<>> THEN 0
    ELSE IF Head(a) = Head(b) THEN 1 + LCS(Tail(a), Tail(b))
    ELSE Max(LCS(Tail(a), b), LCS(a, Tail(b)))

\* fuzz.ratio(a, b) >= t: the normalized Indel similarity 200 * LCS / (|a| + |b|)
RatioAtLeast(a, b, t) ==
    IF Len(a) + Len(b) = 0 THEN 100 >= t
    ELSE 200 * LCS(a, b) >= t * (Len(a) + Len(b))

\* The substrings of long that fuzz.partial_ratio aligns short with: every
\* window of |short| characters, clipped at both ends of long
Windows(short, long) ==
    {SubSeq(long, Max(1, n), Min(Len(long), n + Len(short) - 1)) :
        n \in (2 - Len(short))..Len(long)}

\* fuzz.partial_ratio(a, b) >= t
PartialRatioAtLeast(a, b, t) ==
    LET short == IF Len(a) <= Len(b) THEN a ELSE b
        long == IF Len(a) <= Len(b) THEN b ELSE a
    IN  IF Len(short) = 0 THEN Len(long) = 0 /\ 100 >= t
        ELSE \/ \E w \in Windows(short, long) : RatioAtLeast(short, w, t)
             \/ /\ Len(a) = Len(b)
                /\ \E w \in Windows(long, short) : RatioAtLeast(long, w, t)

\* set(s.split())
Tokens(str) ==
    {SubSeq(str, m, n) : <<m, n>> \in
        {mn \in (DOMAIN str) \X (DOMAIN str) :
            /\ mn[1] <= mn[2]
            /\ \A k \in mn[1]..mn[2] : str[k] # " "
            /\ (mn[1] = 1 \/ str[mn[1] - 1] = " ")
            /\ (mn[2] = Len(str) \/ str[mn[2] + 1] = " ")}}

\* a < b for Python strings
RECURSIVE StrLess(_, _)
StrLess(a, b) ==
    IF b = <<>> THEN FALSE
    ELSE IF a = <<>> THEN TRUE
    ELSE IF Head(a) = Head(b) THEN StrLess(Tail(a), Tail(b))
    ELSE Ord(Head(a)) < Ord(Head(b))

\* " ".join(sorted(tokens))
RECURSIVE JoinSorted(_)
JoinSorted(tokens) ==
    IF tokens = {} THEN <<>>
    ELSE LET first == CHOOSE x \in tokens : \A y \in tokens \ {x} : StrLess(x, y)
             rest == tokens \ {first}
         IN  IF rest = {} THEN first ELSE first \o <<" ">> \o JoinSorted(rest)

\* fuzz.token_set_ratio(a, b) >= t
TokenSetRatioAtLeast(a, b, t) ==
    LET tokens_a == Tokens(a)
        tokens_b == Tokens(b)
        intersect == tokens_a \cap tokens_b
        diff_ab == JoinSorted(tokens_a \ tokens_b)
        diff_ba == JoinSorted(tokens_b \ tokens_a)
        sect_len == Len(JoinSorted(intersect))
        sep == IF sect_len # 0 THEN 1 ELSE 0
        sect_ab_len == sect_len + sep + Len(diff_ab)
        sect_ba_len == sect_len + sep + Len(diff_ba)
        dist == Len(diff_ab) + Len(diff_ba) - 2 * LCS(diff_ab, diff_ba)
        lensum == sect_ab_len + sect_ba_len
    IN  IF tokens_a = {} \/ tokens_b = {} THEN 0 >= t
        ELSE IF intersect # {} /\ (diff_ab = <<>> \/ diff_ba = <<>>) THEN 100 >= t
        ELSE \/ 100 * (lensum - dist) >= t * lensum
             \/ /\ sect_len # 0
                /\ \/ 200 * sect_len >= t * (sect_len + sect_ab_len)
                   \/ 200 * sect_len >= t * (sect_len + sect_ba_len)

FuzzyMatch(text, keyword, t) ==
    LET text_lower == Lower(text)
        key_lower == Lower(keyword)
    IN  \/ Contains(text_lower, key_lower)
        \/ RatioAtLeast(key_lower, text_lower, t)
        \/ PartialRatioAtLeast(key_lower, text_lower, t)
        \/ TokenSetRatioAtLeast(key_lower, text_lower, t)

----------------------------------------------------------------------------
\* filter_relevant

\* developer is None (or empty): `if developer` is false
NoDeveloper == <<>>

FilterKeywords == { <<"K", "w", "k">>, <<"w", " ", "k">> }
FilterDevelopers == { NoDeveloper, <<"x", "x">> }
KeywordItems == [keyword : FilterKeywords, developer : FilterDevelopers]

FilterTitles == { <<"k", "x", "k">>, <<"k", " ", "w">> }
FilterBodies == { <<>>, <<"x", "x">>, <<"K", "W", "K">> }
FilterArticles == [title : FilterTitles, body : FilterBodies]

\* The relevance sensitivities tried: the default and the strictest
Thresholds == {60, 90}

\* text = (title + " " + body).lower()
TextOf(art) == Lower(art.title \o <<" ">> \o art.body)

\* ItemMatches with the developer never looked at
ItemMatchesKeywordOnly(text, item, t) == FuzzyMatch(text, item.keyword, t)

\* The body of `for item in keyword_items`: this item makes the article match
ItemMatches(text, item, t) ==
    LET keyword_match == FuzzyMatch(text, item.keyword, t) IN
    IF item.developer # NoDeveloper
    THEN keyword_match /\ FuzzyMatch(text, item.developer, t)
    ELSE keyword_match

\* is_match after the loop over keyword_items, which breaks at the first match
RECURSIVE IsMatch(_, _, _)
IsMatch(text, items, t) ==
    IF items = <<>> THEN FALSE
    ELSE IF ItemMatches(text, Head(items), t) THEN TRUE
    ELSE IsMatch(text, Tail(items), t)

\* The loop `for art in articles`
RECURSIVE RelevantOf(_, _, _)
RelevantOf(arts, items, t) ==
    IF arts = <<>> THEN <<>>
    ELSE (IF IsMatch(TextOf(Head(arts)), items, t) THEN <<Head(arts)>> ELSE <<>>)
             \o RelevantOf(Tail(arts), items, t)

FilterRelevant ==
    /\ f_pc = "start"
    /\ relevant' = RelevantOf(f_articles, f_items, threshold)
    /\ f_pc' = "done"
    /\ UNCHANGED <<f_articles, f_items, threshold>>
    /\ UNCHANGED <<fetchVars, summVars, estimateVars>>

\* filter_relevant is about to be called
InitFilter ==
    /\ pc = "idle"
    /\ keyword_items = 0
    /\ kasigau_debug = FALSE
    /\ all_results = <<>>
    /\ FetchIdle
    /\ SummIdle
    /\ f_pc = "start"
    /\ f_articles \in SeqsUpTo(FilterArticles, MaxFiltered)
    /\ f_items \in SeqsUpTo(KeywordItems, MaxFilterItems)
    /\ threshold \in Thresholds
    /\ relevant = <<>>
    /\ EstimateIdle

NextFilter == FilterRelevant

SpecFilter == InitFilter /\ [][NextFilter]_vars

----------------------------------------------------------------------------
\* The "Estimate API Usage" button, pressed with a given number of keyword
\* items in keywords.csv and given quota settings

\* The name `filters` is bound when the handler reads it at line 66: the
\* script runs top to bottom and first assigns it at line 105
FiltersBound == FALSE

\* estimated_items = min(total_items, max_keywords_per_run * 2)
EstimatedItems(total, max_keywords) == Min(total, max_keywords * 2)

\* estimated_calls = estimated_items * max_pages_per_item
EstimatedCalls(total, max_keywords, pages) == EstimatedItems(total, max_keywords) * pages

\* `if st.sidebar.button(...)`: the handler, which ends in NameError at its
\* first statement when `filters` is not bound, before any estimate is assigned
EstimateUsage ==
    /\ e_pc = "start"
    /\ IF FiltersBound
       THEN /\ estimated_items' = EstimatedItems(total_items, max_keywords_per_run)
            /\ estimated_calls' = EstimatedCalls(total_items, max_keywords_per_run,
                                                 max_pages_per_item)
            /\ e_pc' = "done"
       ELSE /\ e_pc' = "name_error"
            /\ UNCHANGED <<estimated_items, estimated_calls>>
    /\ UNCHANGED <<total_items, max_keywords_per_run, max_pages_per_item>>
    /\ UNCHANGED <<fetchVars, summVars, filterVars>>

\* The button is about to be pressed: some keyword catalogue sizes (120 among
\* them) and settings within the sidebar's ranges (50 keywords and 2 pages
\* among them)
InitEstimate ==
    /\ pc = "idle"
    /\ keyword_items = 0
    /\ kasigau_debug = FALSE
    /\ all_results = <<>>
    /\ FetchIdle
    /\ SummIdle
    /\ FilterIdle
    /\ e_pc = "start"
    /\ total_items \in (0..MaxEstimateItems) \cup {120}
    /\ max_keywords_per_run \in {1, 2, 3, 50}
    /\ max_pages_per_item \in 1..5
    /\ estimated_items = 0
    /\ estimated_calls = 0

NextEstimate == EstimateUsage

SpecEstimate == InitEstimate /\ [][NextEstimate]_vars

----------------------------------------------------------------------------
\* Properties of the deduplication

\* Indices of all_results holding the first occurrence of a non-empty url
FirstOccurrences(rs) ==
    {i \in DOMAIN rs : HasUrl(rs[i]) /\ \A j \in 1..(i - 1) : rs[j].url # rs[i].url}

\* The k-th smallest element of a set of indices
KthIndex(F, k) == CHOOSE i \in F : Cardinality({j \in F : j <= i}) = k

\* C1: the deduplicated output holds each distinct non-empty url exactly once,
\* and it is the sequence of the first occurrences of those urls, in fetch order.
C1_DedupeFirstOccurrences ==
    pc = "done" =>
        LET F == FirstOccurrences(all_results) IN
        /\ \A i, j \in DOMAIN unique_articles :
               i # j => unique_articles[i].url # unique_articles[j].url
        /\ {unique_articles[i].url : i \in DOMAIN unique_articles}
               = {all_results[i].url : i \in {k \in DOMAIN all_results : HasUrl(all_results[k])}}
        /\ Len(unique_articles) = Cardinality(F)
        /\ \A k \in DOMAIN unique_articles :
               unique_articles[k] = all_results[KthIndex(F, k)]

\* C1 witness: a url fetched twice with different titles, then another url
C1_Witness ==
    /\ pc = "done"
    /\ Len(all_results) = 3
    /\ all_results[1].url = "u1" /\ all_results[2].url = "u1"
    /\ all_results[1].title # all_results[2].title
    /\ all_results[3].url = "u2"
    /\ unique_articles = <<all_results[1], all_results[3]>>

\* C2 (as claimed): every fetched article whose url is empty or missing is in
\* the deduplicated output, as many times as it was fetched.
C2_UrlLessPassThrough ==
    pc = "done" =>
        \A a \in Articles :
            ~HasUrl(a) =>
                Cardinality({i \in DOMAIN unique_articles : unique_articles[i] = a})
                    = Cardinality({i \in DOMAIN all_results : all_results[i] = a})

----------------------------------------------------------------------------
\* Properties of the paging loop and of do_request

\* A search call that returned a page of exactly max_articles_per_call results
FullPage(c) ==
    /\ c.outcome = "ok"
    /\ c.data.kind = "json"
    /\ Len(c.data.results) = MaxArticlesPerCall

\* C5: an item whose every page came back full gets exactly max_pages_per_item
\* search calls, and no item ever gets more than max_pages_per_item.
C5_FullPagesExactlyMaxCalls ==
    /\ page <= MaxPagesPerItem
    /\ Len(item_log) <= MaxPagesPerItem
    /\ (pc = "item_end" /\ \A k \in DOMAIN item_log : FullPage(item_log[k]))
           => Len(item_log) = MaxPagesPerItem

\* C5 witness: an item ended after max_pages_per_item full pages
C5_Witness ==
    /\ pc = "item_end"
    /\ Len(item_log) = MaxPagesPerItem
    /\ \A k \in DOMAIN item_log : FullPage(item_log[k])
    /\ Len(all_results) - item_base = MaxPagesPerItem * MaxArticlesPerCall

\* C6: an item whose first response is 403 ends after one HTTP request and one
\* search call, with nothing appended; it is then counted as failed and the
\* loop goes on with the next item.
C6_QuotaExceededNoRetry ==
    [][(pc = "item_end" /\ item_first_403) =>
          /\ item_requests = 1
          /\ Len(item_log) = 1
          /\ item_log[1].outcome = "quota_exceeded"
          /\ Len(all_results) = item_base
          /\ failed_items' = failed_items + 1
          /\ successful_items' = successful_items
          /\ all_results' = all_results
          /\ (idx < limited_items => pc' = "item" /\ idx' = idx + 1)
          /\ (idx = limited_items => pc' = "dedupe")]_vars

\* C6 witness: an item that is not the last ended on a first response of 403
C6_Witness ==
    /\ pc = "item_end"
    /\ item_first_403
    /\ idx < limited_items
    /\ item_requests = 1

\* C7 (amended): 429/503 is retried at most 3 times after waits of 2, 4, 8
\* seconds; a 429/503 that is still there after the third retry ends the call
\* with no data through the same HTTP-error branch as any other error status.
C7_RetryBackoffThenHttpError ==
    /\ retry <= MaxRetries
    /\ Len(waits) = retry
    /\ \A k \in DOMAIN waits : waits[k] = Pow2(k)
    /\ (pc = "handle" /\ status \in {429, 503}) =>
           /\ retry = MaxRetries
           /\ waits = <<2, 4, 8>>
           /\ data = NoData
           /\ outcome = "http_error"
    /\ (pc = "handle" /\ status = 500) => outcome = "http_error"

\* C7 witness: a call that ended on a 429/503 after three retries
C7_Witness ==
    /\ pc = "handle"
    /\ status \in {429, 503}
    /\ retry = MaxRetries
    /\ waits = <<2, 4, 8>>

\* C7 (as claimed): the exhausted call ends with an outcome distinct from the
\* generic HTTP-error outcome.
C7_RateLimitedDistinct ==
    (pc = "handle" /\ status \in {429, 503}) => outcome # "http_error"

\* C9: within one item, every search call but the last returned a full page
\* (a failed, empty or short page is the last), and what the item appended to
\* all_results is exactly the results of its pages, short pages included.
C9_StopAfterFailedEmptyShort ==
    /\ \A k \in DOMAIN item_log :
           (k < Len(item_log) \/ pc \in {"page", "request", "handle"})
               => FullPage(item_log[k])
    /\ pc \in {"page", "request", "handle", "item_end"} =>
           /\ item_base <= Len(all_results)
           /\ SubSeq(all_results, item_base + 1, Len(all_results))
                  = Flatten([k \in DOMAIN item_log |-> item_log[k].data.results])
           /\ \A k \in DOMAIN item_log :
                  item_log[k].outcome # "ok" => item_log[k].data = NoData

\* C9 witness: an item that ended on a non-empty short second page, kept
C9_Witness ==
    /\ pc = "item_end"
    /\ Len(item_log) = 2
    /\ item_log[2].outcome = "ok"
    /\ Len(item_log[2].data.results) = 1
    /\ Len(all_results) - item_base = MaxArticlesPerCall + 1

----------------------------------------------------------------------------
\* Properties of batch_summarize

\* Number of articles in batch k (1-based) of an input of n articles
GroupSize(k, n) == Min(BatchSize, n - BatchSize * (k - 1))

\* C4: batch_summarize returns as many summaries as it was given articles,
\* whatever the model did for each batch; during the loop out holds one
\* summary for each article of the batches done.
C4_LengthPreserved ==
    /\ s_pc = "loop" => Len(out) = Min(batch_start, articles)
    /\ s_pc = "done" => Len(out) = articles

\* C4 witness: 7 articles, the first batch answered with too few summaries
\* and the second with too many
C4_Witness ==
    /\ s_pc = "done"
    /\ articles = 7
    /\ Len(batch_log) = 2
    /\ batch_log[1].kind = "text"
    /\ Len(ParseSummaries(batch_log[1].txt)) < GroupSize(1, articles)
    /\ batch_log[2].kind = "text"
    /\ Len(ParseSummaries(batch_log[2].txt)) > GroupSize(2, articles)
    /\ Len(out) = 7

\* C10: a batch whose model call failed holds the error placeholder at each of
\* its positions, every other batch holds what its own response gives, and
\* every batch is processed.
C10_FailureIsolatedToBatch ==
    /\ s_pc \in {"loop", "done"} =>
           \A k \in DOMAIN batch_log :
               LET n == GroupSize(k, articles)
                   seg == SubSeq(out, BatchSize * (k - 1) + 1, BatchSize * (k - 1) + n)
               IN  /\ Len(out) >= BatchSize * (k - 1) + n
                   /\ IF batch_log[k].kind = "raise"
                      THEN \A j \in 1..n : seg[j] = Unavailable(batch_log[k].err)
                      ELSE seg = FitToGroup(ParseSummaries(batch_log[k].txt), n)
    /\ s_pc = "done" => BatchSize * Len(batch_log) >= articles

\* C10 witness: the second of two batches failed, the first kept its summaries
C10_Witness ==
    /\ s_pc = "done"
    /\ Len(batch_log) = 2
    /\ batch_log[1].kind = "text"
    /\ batch_log[2].kind = "raise"
    /\ batch_log[2].err = LongError
    /\ out[1] = <<"a">>
    /\ out[BatchSize + 1] = <<"Summary unavailable:">> \o [k \in 1..ExcerptLen |-> "x"]

----------------------------------------------------------------------------
\* Properties of filter_relevant

\* Some keyword item makes the article relevant: its keyword passes
\* fuzzy_match and, when it has a developer, so does the developer
SomeItemRelevant(art, items, t) ==
    \E n \in DOMAIN items :
        /\ FuzzyMatch(TextOf(art), items[n].keyword, t)
        /\ items[n].developer # NoDeveloper
               => FuzzyMatch(TextOf(art), items[n].developer, t)

\* C3: filter_relevant returns, in their order, exactly the articles for which
\* some keyword item passes on its keyword and, if it has one, on its developer.
C3_RetainedIffSomeItemRelevant ==
    f_pc = "done" =>
        relevant = SelectSeq(f_articles,
                             LAMBDA art : SomeItemRelevant(art, f_items, threshold))

\* C3 witness: one item with a developer; the article matching the keyword
\* alone is rejected, the article matching keyword and developer is kept
C3_Witness ==
    /\ f_pc = "done"
    /\ threshold = 60
    /\ f_items = << [keyword |-> <<"K", "w", "k">>, developer |-> <<"x", "x">>] >>
    /\ Len(f_articles) = 2
    /\ f_articles[1] = [title |-> <<"k", "x", "k">>, body |-> <<>>]
    /\ f_articles[2] = [title |-> <<"k", "x", "k">>, body |-> <<"x", "x">>]
    /\ FuzzyMatch(TextOf(f_articles[1]), <<"K", "w", "k">>, threshold)
    /\ ~FuzzyMatch(TextOf(f_articles[1]), <<"x", "x">>, threshold)
    /\ relevant = <<f_articles[2]>>

----------------------------------------------------------------------------
\* Properties of the API-usage estimate

\* C8 (as claimed): once the button has been pressed the estimate is
\* min(totalItems, maxKeywordsPerRun) * maxPagesPerItem; 120 items, 50
\* keywords per run and 2 pages give 100.
C8_EstimateAsClaimed ==
    e_pc \notin {"idle", "start"} =>
        /\ e_pc = "done"
        /\ estimated_calls = Min(total_items, max_keywords_per_run) * max_pages_per_item

----------------------------------------------------------------------------
\* Properties of the number of calls in one fetch run

\* C11 (amended): the search calls of the paging loop never exceed
\* max_keywords_per_run * max_pages_per_item; every do_request posts at most
\* 1 + 3 HTTP requests, and the debug diagnostic adds one do_request, so the
\* network calls never exceed 4 * (max_keywords_per_run * max_pages_per_item + 1).
C11_SearchCallsBounded ==
    /\ total_calls <= limited_items * MaxPagesPerItem
    /\ limited_items <= MaxKeywordsPerRun
    /\ diagnostic_calls <= 1
    /\ network_calls <= (MaxRetries + 1) * (total_calls + diagnostic_calls)
    /\ network_calls <= (MaxRetries + 1) * (MaxKeywordsPerRun * MaxPagesPerItem + 1)

\* C11 witness: a finished run that made every search call the quota allows
\* and more network calls than that
C11_Witness ==
    /\ pc = "done"
    /\ total_calls = MaxKeywordsPerRun * MaxPagesPerItem
    /\ network_calls > MaxKeywordsPerRun * MaxPagesPerItem

\* C11 (as claimed): the network calls of one fetch run never exceed
\* max_keywords_per_run * max_pages_per_item.
C11_NetworkCallsBounded ==
    network_calls <= MaxKeywordsPerRun * MaxPagesPerItem

====
